---- MODULE Spec2Model ----
(***************************************************************************)
(* A model of radosgw_agent/sync.py: the Syncer base class (shard hashing, *)
(* complete_item, the worker-pool protocol of sync()) and its four         *)
(* variants MetaSyncerInc, DataSyncerInc, DataSyncerFull, MetaSyncerFull.  *)
(*                                                                         *)
(* One coordinator process runs prepare() and then sync(); num_workers     *)
(* worker processes pull from workQueue and push to resultQueue.  The      *)
(* remote gateways (radosgw_agent.client) and the clock are the            *)
(* environment: every answer they give is drawn from a small set at the    *)
(* call.                                                                   *)
(***************************************************************************)
EXTENDS Integers, Sequences, FiniteSets, TLC

VARIABLES
    variant,            \* which Syncer subclass was constructed
    pc,                 \* the coordinator's position
    ph,                 \* prepare(): index of the current step in Phases(variant)
    idx,                \* prepare(): loop index (shard number or section index)
    now,                \* time.time()
    num_shards,         \* self.num_shards
    shard_info,         \* self.shard_info      (dict shard -> marker)
    shard_work,         \* self.shard_work      (dict shard -> (log_entries, retries))
    buckets_by_shard,   \* self.buckets_by_shard (dict shard -> [bucket])
    metadata_by_shard,  \* self.metadata_by_shard (dict shard -> [(section, key)])
    sections,           \* self.sections
    prepared_at,        \* self.prepared_at
    calls,              \* history: the client calls made by prepare(), in order
    replies,            \* history: the answer to each of those calls
    answers,            \* history: what the gateways answered for each shard
    num_workers,        \* sync(): the num_workers argument
    wstate,             \* the worker processes: state of each
    held,               \* the work item each busy worker is processing
    pills_got,          \* history: how many poison pills each worker dequeued
    workQueue,          \* sync(): workQueue
    resultQueue,        \* sync(): resultQueue (the shard of each result waiting)
    work_puts,          \* history: everything sync() put on workQueue, in order
    gen,                \* sync(): what the generate_work() iterator still yields
    num_items,          \* sync(): num_items
    i,                  \* sync(): number of results read from resultQueue
    retries,            \* sync(): the local variable retries
    report,             \* what the closing log.error of sync() reported
    outcomes,           \* history: the results read, by shard
    set_calls,          \* history: the client.set_worker_bound calls, by shard
    writing,            \* complete_item(): the set_worker_bound calls not yet returned
    wait_called_at,     \* history: the clock when wait_until_ready() was called
    wait_returned_at,   \* history: the clock when wait_until_ready() returned
    hash_key,           \* shard_num_for_key(key): the argument
    hash_shard          \* shard_num_for_key(key): the value returned

prep_vars == <<variant, ph, idx, num_shards, shard_info, shard_work,
               buckets_by_shard, metadata_by_shard, sections, prepared_at, calls,
               replies, answers>>
pool_vars == <<wstate, held, pills_got>>
sync_vars == <<num_workers, workQueue, resultQueue, work_puts, gen, num_items,
               i, retries, report, outcomes, set_calls, writing, wait_called_at,
               wait_returned_at>>
hash_vars == <<hash_key, hash_shard>>

vars == <<pc, now, prep_vars, pool_vars, sync_vars, hash_vars>>

----------------------------------------------------------------------------
(* Bounds of the model. *)

MaxShards == 2        \* num_log_shards answers 1..MaxShards
MaxWorkers == 2       \* sync() is called with num_workers in 0..MaxWorkers
MaxDelay == 1         \* how late after prepare() the caller may call sync()
MaxKeyLen == 3        \* the keys hashed on their own encode to 0..MaxKeyLen bytes
MaxHashShards == 5    \* and are hashed for 1..MaxHashShards shards

(* Program constants. *)

None == -1                       \* Python's None where a number is expected
DefaultLogWindow == 30           \* kwargs.get('rgw_data_log_window', 30)
DAEMON_ID == "radosgw-agent"
RESULT_SUCCESS == "success"      \* worker.RESULT_SUCCESS
RESULT_ERROR == "error"          \* any other result value
DEFAULT_TIME == "1970-01-01 00:00:00"   \* worker.DEFAULT_TIME

Variants == {"MetaSyncerInc", "DataSyncerInc", "DataSyncerFull", "MetaSyncerFull"}

----------------------------------------------------------------------------
(* Python dicts are functions on their key set. *)

EmptyDict == [k \in {} |-> 0]

\* d.get(k): the value, or nothing (the empty marker stands for None: both
\* are falsy, and complete_item only tests truthiness)
DictGet(d, k, default) == IF k \in DOMAIN d THEN d[k] ELSE default

\* d[k] = v
DictSet(d, k, v) == [x \in (DOMAIN d) \cup {k} |-> IF x = k THEN v ELSE d[x]]

\* d.setdefault(k, []); d[k].append(v)
DictAppend(d, k, v) == DictSet(d, k, Append(DictGet(d, k, <<>>), v))

\* the keys of a dict of small ints, in the order iteritems() visits them
RECURSIVE SortedKeys(_)
SortedKeys(S) ==
    IF S = {} THEN <<>>
    ELSE LET m == CHOOSE x \in S : \A y \in S : x <= y
         IN <<m>> \o SortedKeys(S \ {m})

SeqSet(s) == {s[k] : k \in 1..Len(s)}

----------------------------------------------------------------------------
(* Syncer.shard_num_for_key.  A key is the sequence of its code points;   *)
(* the hash runs over the bytes of its UTF-8 encoding.                    *)

\* the UTF-8 bytes of one code point of the basic multilingual plane
Utf8Char(c) ==
    IF c < 128 THEN <<c>>
    ELSE IF c < 2048 THEN <<192 + (c \div 64), 128 + (c % 64)>>
    ELSE <<224 + (c \div 4096), 128 + ((c \div 64) % 64), 128 + (c % 64)>>

\* key = key.encode('utf8')
RECURSIVE Utf8(_)
Utf8(key) ==
    IF key = <<>> THEN <<>> ELSE Utf8Char(Head(key)) \o Utf8(Tail(key))

ShiftLeft4(c) == c * 16
ShiftRight4(c) == c \div 16

HashStep(hash_val, c) == (hash_val + ShiftLeft4(c) + ShiftRight4(c)) * 11

\* for char in key: the loop over the encoded bytes
RECURSIVE HashVal(_)
HashVal(bytes) ==
    IF bytes = <<>> THEN 0
    ELSE HashStep(HashVal(SubSeq(bytes, 1, Len(bytes) - 1)), bytes[Len(bytes)])

\* a faulty return: the value is not reduced
shard_num_for_keyNoMod(key, n) == HashVal(Utf8(key))

\* return hash_val % self.num_shards
shard_num_for_key(key, n) == HashVal(Utf8(key)) % n

----------------------------------------------------------------------------
(* What the environment can answer.  Names are byte sequences ("a" = 97,   *)
(* "b" = 98, "p" = 112, "u" = 117); a retry identifier is tagged "name" so *)
(* that it never equals a shard number, as a Python string never equals an *)
(* int.                                                                    *)

Name(n) == <<"name", n>>
ShardEntry(s) == <<"shard", s>>

Ok(v) == [status |-> "ok", value |-> v]
NotFound == [status |-> "NotFound", value |-> <<>>]
HttpError == [status |-> "HttpError", value |-> <<>>]

\* client.num_log_shards
ShardCountAnswers == {[status |-> "ok", value |-> n] : n \in 1..MaxShards}
                       \cup {[status |-> "HttpError", value |-> 0]}

\* client.get_worker_bound: (marker, timestamp, retries), or NotFound
BoundAnswers == {NotFound, Ok([marker |-> "m2", retries |-> <<Name(1), Name(2)>>])}

\* client.get_log: the entries past the marker, or NotFound
LogAnswers == {NotFound, Ok(<<"e1">>)}

\* client.get_log_info: info['marker']
MarkerAnswers == {"", "m1"}

\* client.get_bucket_list
BucketLists == {<<>>, <<<<97>>>>, <<<<97>>, <<98>>>>, <<<<97>>, <<112>>>>}

\* client.get_metadata_sections
SectionAnswers == {HttpError, Ok(<<>>), Ok(<<<<117>>>>), Ok(<<<<117>>, <<98>>>>)}

\* client.list_metadata_keys
KeyAnswers == {NotFound, HttpError, Ok(<<<<97>>>>), Ok(<<<<97>>, <<112>>>>)}

Colon == <<58>>

\* an answer as the history keeps it: the status, and the names listed
Reply(status, names) == [status |-> status, value |-> names]

----------------------------------------------------------------------------
(* prepare().  The statements of each variant's prepare() in program order. *)

IncPhases == <<"init_num_shards", "bounds">>
DataFullPhases == <<"init_num_shards", "markers", "buckets">>
\* a faulty ordering: the keys are listed before the markers are snapshotted
MetaFullPhasesKeysFirst == <<"sections", "init_num_shards", "keys", "markers">>
MetaFullPhases == <<"sections", "init_num_shards", "markers", "keys">>

Phases(v) ==
    CASE v \in {"MetaSyncerInc", "DataSyncerInc"} -> IncPhases
      [] v = "DataSyncerFull" -> DataFullPhases
      [] v = "MetaSyncerFull" -> MetaFullPhases

\* self.type
TypeOf(v) == IF v \in {"MetaSyncerInc", "MetaSyncerFull"} THEN "metadata" ELSE "data"

InPhase(name) == pc = "prepare" /\ Phases(variant)[ph] = name

\* fall through to the next statement of prepare(), or return from it
NextPhase ==
    /\ idx' = 0
    /\ IF ph < Len(Phases(variant))
       THEN ph' = ph + 1 /\ pc' = "prepare"
       ELSE ph' = ph /\ pc' = "prepared"

\* an exception leaves prepare(): the caller never gets to sync()
Raise == pc' = "aborted" /\ UNCHANGED <<ph, idx>>

InitRun ==
    /\ variant \in Variants
    /\ ph = 1
    /\ idx = 0
    /\ now = 0
    /\ shard_info = EmptyDict
    /\ shard_work = EmptyDict
    /\ buckets_by_shard = EmptyDict
    /\ metadata_by_shard = EmptyDict
    /\ sections = <<>>
    /\ prepared_at = None
    /\ calls = <<>>
    /\ replies = <<>>
    /\ answers = EmptyDict
    /\ num_workers = None
    /\ wstate = <<>>
    /\ held = <<>>
    /\ pills_got = <<>>
    /\ workQueue = <<>>
    /\ resultQueue = <<>>
    /\ work_puts = <<>>
    /\ gen = <<>>
    /\ num_items = 0
    /\ i = 0
    /\ retries = <<>>
    /\ report = [done |-> FALSE, logged |-> FALSE, shards |-> <<>>]
    /\ outcomes = EmptyDict
    /\ set_calls = EmptyDict
    /\ writing = <<>>
    /\ wait_called_at = None
    /\ wait_returned_at = None

\* a run of the agent: a syncer is constructed, nothing is hashed yet
Init ==
    /\ pc = "prepare"
    /\ num_shards = None
    /\ hash_key = <<>>
    /\ hash_shard = None
    /\ InitRun

\* Syncer.init_num_shards
InitNumShards ==
    /\ InPhase("init_num_shards")
    /\ IF num_shards # None
       THEN NextPhase /\ UNCHANGED <<num_shards, calls, replies>>
       ELSE \E ans \in ShardCountAnswers :
              /\ calls' = Append(calls, <<"num_log_shards", None>>)
              /\ replies' = Append(replies, Reply(ans.status, <<>>))
              /\ IF ans.status = "ok"
                 THEN num_shards' = ans.value /\ NextPhase
                 ELSE Raise /\ UNCHANGED num_shards
    /\ UNCHANGED <<variant, hash_vars, now, shard_info, shard_work, buckets_by_shard,
                   metadata_by_shard, sections, prepared_at, answers, pool_vars,
                   sync_vars>>

\* a faulty lookup: the retries of the bound are dropped
get_worker_boundNoRetries(ans) ==
    IF ans.status = "NotFound"
    THEN [marker |-> "", retries |-> <<>>]
    ELSE [marker |-> ans.value.marker, retries |-> <<>>]

\* IncrementalSyncer.get_worker_bound: NotFound becomes ('', [])
get_worker_bound(ans) ==
    IF ans.status = "NotFound"
    THEN [marker |-> "", retries |-> <<>>]
    ELSE ans.value

\* IncrementalSyncer.get_log_entries: NotFound becomes []
get_log_entries(ans) ==
    IF ans.status = "NotFound" THEN <<>> ELSE ans.value

\* a faulty range: xrange(1, num_shards)
IncShardRangeFromOne(n) == 1..(n - 1)

\* the shards IncrementalSyncer.prepare() visits
IncShardRange(n) == 0..(n - 1)

\* one iteration of the loop of IncrementalSyncer.prepare()
IncPrepareShard ==
    /\ InPhase("bounds")
    /\ idx \in IncShardRange(num_shards)
    /\ \E b \in BoundAnswers, l \in LogAnswers :
         LET bound == get_worker_bound(b)
             log_entries == get_log_entries(l)
         IN /\ shard_info' = DictSet(shard_info, idx, bound.marker)
            /\ shard_work' = DictSet(shard_work, idx, <<log_entries, bound.retries>>)
            /\ answers' = DictSet(answers, idx,
                                  [bound |-> b, log |-> l, marker |-> ""])
            /\ replies' = replies \o <<Reply(b.status, <<>>), Reply(l.status, <<>>)>>
    /\ calls' = calls \o <<<<"get_worker_bound", idx>>, <<"get_log", idx>>>>
    /\ idx' = idx + 1
    /\ UNCHANGED <<variant, hash_vars, pc, ph, now, num_shards, buckets_by_shard,
                   metadata_by_shard, sections, prepared_at, pool_vars, sync_vars>>

\* the loop of IncrementalSyncer.prepare() is over: record prepared_at
IncPrepareDone ==
    /\ InPhase("bounds")
    /\ idx \notin IncShardRange(num_shards)
    /\ prepared_at' = now
    /\ NextPhase
    /\ UNCHANGED <<variant, hash_vars, now, num_shards, shard_info, shard_work, buckets_by_shard,
                   metadata_by_shard, sections, calls, replies, answers, pool_vars,
                   sync_vars>>

\* one iteration of the marker loop of DataSyncerFull/MetaSyncerFull.prepare():
\* an empty marker is not recorded
GetLogInfo ==
    /\ InPhase("markers")
    /\ idx < num_shards
    /\ \E marker \in MarkerAnswers :
         /\ shard_info' = IF marker # "" THEN DictSet(shard_info, idx, marker)
                          ELSE shard_info
         /\ answers' = DictSet(answers, idx,
                               [bound |-> NotFound, log |-> NotFound, marker |-> marker])
    /\ calls' = Append(calls, <<"get_log_info", idx>>)
    /\ replies' = Append(replies, Reply("ok", <<>>))
    /\ idx' = idx + 1
    /\ UNCHANGED <<variant, hash_vars, pc, ph, now, num_shards, shard_work, buckets_by_shard,
                   metadata_by_shard, sections, prepared_at, pool_vars, sync_vars>>

MarkersDone ==
    /\ InPhase("markers")
    /\ idx >= num_shards
    /\ NextPhase
    /\ UNCHANGED <<variant, hash_vars, now, num_shards, shard_info, shard_work, buckets_by_shard,
                   metadata_by_shard, sections, prepared_at, calls, replies, answers,
                   pool_vars,
                   sync_vars>>

\* DataSyncerFull.prepare(): the buckets, each appended to the list of its shard
RECURSIVE PartitionBuckets(_, _, _)
PartitionBuckets(d, buckets, n) ==
    IF buckets = <<>> THEN d
    ELSE PartitionBuckets(DictAppend(d, shard_num_for_key(Head(buckets), n),
                                     Head(buckets)),
                          Tail(buckets), n)

GetBucketList ==
    /\ InPhase("buckets")
    /\ \E buckets \in BucketLists :
         /\ buckets_by_shard' = PartitionBuckets(EmptyDict, buckets, num_shards)
         /\ replies' = Append(replies, Reply("ok", buckets))
    /\ calls' = Append(calls, <<"get_bucket_list", None>>)
    /\ prepared_at' = now
    /\ NextPhase
    /\ UNCHANGED <<variant, hash_vars, now, num_shards, shard_info, shard_work,
                   metadata_by_shard, sections, answers, pool_vars, sync_vars>>

\* MetaSyncerFull.prepare(): the first statement
GetMetadataSections ==
    /\ InPhase("sections")
    /\ calls' = Append(calls, <<"get_metadata_sections", None>>)
    /\ \E ans \in SectionAnswers :
         /\ replies' = Append(replies, Reply(ans.status, ans.value))
         /\ IF ans.status = "ok"
            THEN sections' = ans.value /\ NextPhase
            ELSE Raise /\ UNCHANGED sections
    /\ UNCHANGED <<variant, hash_vars, now, num_shards, shard_info, shard_work, buckets_by_shard,
                   metadata_by_shard, prepared_at, answers, pool_vars, sync_vars>>

\* a faulty partition: the key is hashed without its section
RECURSIVE PartitionKeysByKeyOnly(_, _, _, _)
PartitionKeysByKeyOnly(d, section, keys, n) ==
    IF keys = <<>> THEN d
    ELSE PartitionKeysByKeyOnly(DictAppend(d, shard_num_for_key(Head(keys), n),
                                           <<section, Head(keys)>>),
                                section, Tail(keys), n)

\* MetaSyncerFull.prepare(): the keys of one section, each appended to the
\* list of the shard of section + ':' + key
RECURSIVE PartitionKeys(_, _, _, _)
PartitionKeys(d, section, keys, n) ==
    IF keys = <<>> THEN d
    ELSE PartitionKeys(DictAppend(d,
                                  shard_num_for_key(section \o Colon \o Head(keys), n),
                                  <<section, Head(keys)>>),
                       section, Tail(keys), n)

\* a faulty handler: no `except client.NotFound: continue`
KeyListingSkippedNever(status) == FALSE

\* except client.NotFound: continue -- every other failure is raised
KeyListingSkipped(status) == status = "NotFound"

\* one iteration of the section loop of MetaSyncerFull.prepare()
ListMetadataKeys ==
    /\ InPhase("keys")
    /\ idx < Len(sections)
    /\ calls' = Append(calls, <<"list_metadata_keys", idx>>)
    /\ \E ans \in KeyAnswers :
         /\ replies' = Append(replies, Reply(ans.status, ans.value))
         /\ CASE ans.status = "ok" ->
                  /\ metadata_by_shard' = PartitionKeys(metadata_by_shard,
                                              sections[idx + 1], ans.value, num_shards)
                  /\ idx' = idx + 1
                  /\ UNCHANGED <<pc, ph>>
             [] KeyListingSkipped(ans.status) ->
                  /\ idx' = idx + 1
                  /\ UNCHANGED <<pc, ph, metadata_by_shard>>
             [] OTHER ->
                  /\ Raise
                  /\ UNCHANGED metadata_by_shard
    /\ UNCHANGED <<variant, hash_vars, now, num_shards, shard_info, shard_work, buckets_by_shard,
                   sections, prepared_at, answers, pool_vars, sync_vars>>

KeysDone ==
    /\ InPhase("keys")
    /\ idx >= Len(sections)
    /\ NextPhase
    /\ UNCHANGED <<variant, hash_vars, now, num_shards, shard_info, shard_work, buckets_by_shard,
                   metadata_by_shard, sections, prepared_at, calls, replies, answers,
                   pool_vars,
                   sync_vars>>

Prepare ==
    \/ InitNumShards
    \/ IncPrepareShard
    \/ IncPrepareDone
    \/ GetLogInfo
    \/ MarkersDone
    \/ GetBucketList
    \/ GetMetadataSections
    \/ ListMetadataKeys
    \/ KeysDone

----------------------------------------------------------------------------
(* sync(): the coordinator. *)

DataVariants == {"DataSyncerInc", "DataSyncerFull"}

\* the dict generate_work() iterates
WorkMap(v) ==
    CASE v \in {"MetaSyncerInc", "DataSyncerInc"} -> shard_work
      [] v = "DataSyncerFull" -> buckets_by_shard
      [] v = "MetaSyncerFull" -> metadata_by_shard

\* a faulty generator: one pair for every shard, with or without payload
generate_workAllShards(v) ==
    [k \in 1..num_shards |-> <<k - 1, DictGet(WorkMap(v), k - 1, <<>>)>>]

\* generate_work(): the (shard, payload) pairs of iteritems()
generate_work(v) ==
    LET d == WorkMap(v)
        keys == SortedKeys(DOMAIN d)
    IN [k \in 1..Len(keys) |-> <<keys[k], d[keys[k]]>>]

WorkItem(item) == [pill |-> FALSE, item |-> item]
PoisonPill == [pill |-> TRUE, item |-> <<>>]     \* workQueue.put(None)
NoItem == <<>>

\* a faulty order: the work is put on the queue before wait_until_ready()
SyncStepsEnqueueFirst == <<"enqueue", "wait", "drain", "done">>

\* sync() once the workers are started: wait_until_ready(), the puts on
\* workQueue, the result loop, the return
SyncSteps == <<"wait", "enqueue", "drain", "done">>

StepAfter(step) ==
    SyncSteps[(CHOOSE k \in 1..Len(SyncSteps) : SyncSteps[k] = step) + 1]

\* sync() begins: the worker processes are created and started
SyncStart ==
    /\ pc = "prepared"
    /\ \E W \in 0..MaxWorkers :
         /\ num_workers' = W
         /\ wstate' = [w \in 1..W |-> "idle"]
         /\ held' = [w \in 1..W |-> NoItem]
         /\ pills_got' = [w \in 1..W |-> 0]
    /\ wait_called_at' = now
    /\ pc' = SyncSteps[1]
    /\ UNCHANGED <<now, prep_vars, hash_vars, workQueue, resultQueue, work_puts, gen, num_items,
                   i, retries, report, outcomes, set_calls, writing, wait_returned_at>>

\* a faulty condition: the window is left out of the comparison
MustWaitNoWindow(v, t, p) ==
    IF v \in DataVariants THEN t < p ELSE FALSE

\* the loop condition of wait_until_ready(): the data variants wait for
\* prepared_at + rgw_data_log_window, Syncer.wait_until_ready() is `pass`
MustWait(v, t, p) ==
    IF v \in DataVariants THEN t < p + DefaultLogWindow ELSE FALSE

\* wait_until_ready(): time.sleep(1)
WaitSleep ==
    /\ pc = "wait"
    /\ MustWait(variant, now, prepared_at)
    /\ now' = now + 1
    /\ UNCHANGED <<pc, prep_vars, hash_vars, pool_vars, sync_vars>>

\* wait_until_ready() returns; sync() calls generate_work()
WaitReturn ==
    /\ pc = "wait"
    /\ ~MustWait(variant, now, prepared_at)
    /\ wait_returned_at' = now
    /\ gen' = generate_work(variant)
    /\ pc' = StepAfter("wait")
    /\ UNCHANGED <<now, prep_vars, hash_vars, pool_vars, num_workers, workQueue, resultQueue,
                   work_puts, num_items, i, retries, report, outcomes, set_calls, writing,
                   wait_called_at>>

\* for item in self.generate_work(): num_items += 1; workQueue.put(item)
EnqueueItem ==
    /\ pc = "enqueue"
    /\ gen # <<>>
    /\ num_items' = num_items + 1
    /\ workQueue' = Append(workQueue, WorkItem(Head(gen)))
    /\ work_puts' = Append(work_puts, WorkItem(Head(gen)))
    /\ gen' = Tail(gen)
    /\ UNCHANGED <<pc, now, prep_vars, hash_vars, pool_vars, num_workers, resultQueue,
                   i, retries, report, outcomes, set_calls, writing, wait_called_at,
                   wait_returned_at>>

\* faulty counts: one pill too many, one pill too few
PoisonPillsExtra(W) == W + 1
PoisonPillsFew(W) == IF W > 1 THEN W - 1 ELSE W

\* for i in xrange(num_workers): one poison pill per worker
PoisonPills(W) == W

PillsPut == Len(work_puts) - num_items

PutPill ==
    /\ pc = "enqueue"
    /\ gen = <<>>
    /\ PillsPut < PoisonPills(num_workers)
    /\ workQueue' = Append(workQueue, PoisonPill)
    /\ work_puts' = Append(work_puts, PoisonPill)
    /\ UNCHANGED <<pc, now, prep_vars, hash_vars, pool_vars, num_workers, resultQueue, gen,
                   num_items, i, retries, report, outcomes, set_calls, writing, wait_called_at,
                   wait_returned_at>>

\* retries = {}
StartDrain ==
    /\ pc = "enqueue"
    /\ gen = <<>>
    /\ PillsPut >= PoisonPills(num_workers)
    /\ retries' = <<>>
    /\ pc' = StepAfter("enqueue")
    /\ UNCHANGED <<now, prep_vars, hash_vars, pool_vars, num_workers, workQueue, resultQueue,
                   work_puts, gen, num_items, i, report, outcomes, set_calls, writing,
                   wait_called_at, wait_returned_at>>

\* faulty counts: one read too many, one read too few
NumReadsMany(n) == n + 1
NumReadsFew(n) == IF n > 0 THEN n - 1 ELSE 0

\* for i in xrange(num_items): how many results sync() reads
NumReads(n) == n

\* a faulty test: `if result:`, true of every result value
ShouldCompleteAny(result) == result # ""

\* if result == worker.RESULT_SUCCESS
ShouldComplete(result) == result = RESULT_SUCCESS

\* a faulty test: `if marker is None`, which lets an empty marker through
HasSnapshotKeyOnly(info, shard_num) == shard_num \in DOMAIN info

\* complete_item: marker = self.shard_info.get(shard_num); if not marker: return
HasSnapshot(info, shard_num) == DictGet(info, shard_num, "") # ""

\* a faulty payload: the retries are left out
RetryDataNone(rs) == <<>>

\* complete_item: data = [dict(name=retry, time=worker.DEFAULT_TIME) ...]
RetryData(rs) == [k \in 1..Len(rs) |-> [name |-> rs[k], time |-> DEFAULT_TIME]]

\* a faulty complete_item: the set_worker_bound call is made twice
complete_itemTwice(info, v, shard_num, rs) ==
    IF ~HasSnapshot(info, shard_num) THEN <<>>
    ELSE LET call == [type |-> TypeOf(v),
                      marker |-> info[shard_num],
                      time |-> DEFAULT_TIME,
                      daemon_id |-> DAEMON_ID,
                      shard |-> shard_num,
                      data |-> RetryData(rs),
                      ok |-> TRUE]
         IN <<call, call>>

\* complete_item(shard_num, retries): the set_worker_bound calls it makes
complete_item(info, v, shard_num, rs) ==
    IF ~HasSnapshot(info, shard_num) THEN <<>>
    ELSE << [type |-> TypeOf(v),
             marker |-> info[shard_num],
             time |-> DEFAULT_TIME,
             daemon_id |-> DAEMON_ID,
             shard |-> shard_num,
             data |-> RetryData(rs),
             ok |-> TRUE] >>

\* the local variable retries after one pass of the result loop: it is
\* rebound to the list of the result just read, and a failed shard is
\* appended to that list
RetriesAfter(result, shard_num, rs) ==
    IF ShouldComplete(result) THEN rs ELSE Append(rs, ShardEntry(shard_num))

\* a faulty unpacking: the list of the result is added to the list so far
UnpackedExtend(prev, rs) == prev \o rs

\* shard_num, retries = item: the name retries is bound to the list of the
\* result just read, whatever it was bound to before
Unpacked(prev, rs) == rs

\* a faulty complete_item without the try/except: a failed write is raised
CompleteItemCatchesNone(ok) == ok

\* complete_item: except Exception as e: log.warn(...); whether the caller
\* goes on after a set_worker_bound that succeeded (ok) or failed
CompleteItemCatches(ok) == TRUE

\* what a worker may report for an item: the result value, and the retries
Results == {RESULT_SUCCESS, RESULT_ERROR}
ResultRetries == {<<>>, <<Name(3)>>}

\* one pass of the result loop, up to the call of set_worker_bound:
\* resultQueue.get(), the unpacking, and either the failure branch or
\* complete_item up to its client call, which is then in progress.
\* Nothing looks at a result while it waits in the queue, so the queue holds
\* the shard of each result and the (result, retries) the worker sent with
\* it is drawn here, where sync() unpacks it.
ReadResult ==
    /\ pc = "drain"
    /\ i < NumReads(num_items)
    /\ resultQueue # <<>>
    /\ \E result \in Results, rs \in ResultRetries :
       LET shard_num == Head(resultQueue)
           cur == Unpacked(retries, rs)
           writes == IF ShouldComplete(result)
                     THEN complete_item(shard_info, variant, shard_num, cur)
                     ELSE <<>>
       IN /\ resultQueue' = Tail(resultQueue)
          /\ retries' = RetriesAfter(result, shard_num, cur)
          /\ outcomes' = DictAppend(outcomes, shard_num,
                                    [result |-> result, retries |-> rs])
          /\ writing' = writes
          /\ pc' = IF writes = <<>> THEN pc ELSE "write"
    /\ i' = i + 1
    /\ UNCHANGED <<now, prep_vars, hash_vars, pool_vars, num_workers, workQueue,
                   work_puts, gen, num_items, report, set_calls, wait_called_at,
                   wait_returned_at>>

\* client.set_worker_bound returns or fails, while the workers went on
\* meanwhile: complete_item logs a failure and returns to the result loop
SetWorkerBound ==
    /\ pc = "write"
    /\ writing # <<>>
    /\ \E ok \in BOOLEAN :
         /\ set_calls' = DictAppend(set_calls, Head(writing).shard,
                                    [Head(writing) EXCEPT !.ok = ok])
         /\ writing' = Tail(writing)
         /\ pc' = IF ~CompleteItemCatches(ok) THEN "aborted"
                  ELSE IF Tail(writing) = <<>> THEN "drain" ELSE "write"
    /\ UNCHANGED <<now, prep_vars, hash_vars, pool_vars, num_workers, workQueue,
                   resultQueue, work_puts, gen, num_items, i, retries, report,
                   outcomes, wait_called_at, wait_returned_at>>

\* if retries: log.error('Encountered errors syncing these %d shards: %r', ...)
EndOfRunReport(rs) == [done |-> TRUE, logged |-> rs # <<>>, shards |-> rs]

\* the result loop is over: the closing report, and sync() returns
Finish ==
    /\ pc = "drain"
    /\ i >= NumReads(num_items)
    /\ report' = EndOfRunReport(retries)
    /\ pc' = StepAfter("drain")
    /\ UNCHANGED <<now, prep_vars, hash_vars, pool_vars, num_workers, workQueue, resultQueue,
                   work_puts, gen, num_items, i, retries, outcomes, set_calls, writing,
                   wait_called_at, wait_returned_at>>

Coordinator ==
    \/ Prepare
    \/ SyncStart
    \/ WaitSleep
    \/ WaitReturn
    \/ EnqueueItem
    \/ PutPill
    \/ StartDrain
    \/ ReadResult
    \/ SetWorkerBound
    \/ Finish

----------------------------------------------------------------------------
(* The worker processes (radosgw_agent.worker): each takes items off       *)
(* workQueue until it takes a poison pill, and puts one result per item on *)
(* resultQueue.                                                            *)

\* item = self.work_queue.get(): a pill ends the worker
WorkerGet(w) ==
    /\ w \in DOMAIN wstate
    /\ wstate[w] = "idle"
    /\ workQueue # <<>>
    /\ workQueue' = Tail(workQueue)
    /\ IF Head(workQueue).pill
       THEN /\ wstate' = [wstate EXCEPT ![w] = "exited"]
            /\ pills_got' = [pills_got EXCEPT ![w] = @ + 1]
            /\ UNCHANGED held
       ELSE /\ wstate' = [wstate EXCEPT ![w] = "busy"]
            /\ held' = [held EXCEPT ![w] = Head(workQueue).item]
            /\ UNCHANGED pills_got
    /\ UNCHANGED <<pc, now, prep_vars, hash_vars, num_workers, resultQueue, work_puts, gen,
                   num_items, i, retries, report, outcomes, set_calls, writing, wait_called_at,
                   wait_returned_at>>

\* self.result_queue.put((result, (shard_num, retries)))
WorkerPut(w) ==
    /\ w \in DOMAIN wstate
    /\ wstate[w] = "busy"
    /\ resultQueue' = Append(resultQueue, held[w][1])
    /\ wstate' = [wstate EXCEPT ![w] = "idle"]
    /\ held' = [held EXCEPT ![w] = NoItem]
    /\ UNCHANGED <<pc, now, prep_vars, hash_vars, pills_got, num_workers, workQueue, work_puts,
                   gen, num_items, i, retries, report, outcomes, set_calls, writing,
                   wait_called_at, wait_returned_at>>

\* a worker process dies while it holds an item: no result is put
WorkerCrash(w) ==
    /\ w \in DOMAIN wstate
    /\ wstate[w] = "busy"
    /\ wstate' = [wstate EXCEPT ![w] = "dead"]
    /\ UNCHANGED <<pc, now, prep_vars, hash_vars, held, pills_got, sync_vars>>

Worker(w) == WorkerGet(w) \/ WorkerPut(w)

----------------------------------------------------------------------------
(* The clock: time passes during prepare() and before the call of sync(). *)

\* the clock values looked at: shortly after prepare(), and around the end
\* of the settle window
ClockValues == (0..MaxDelay) \cup ((DefaultLogWindow - 1)..(DefaultLogWindow + MaxDelay))

Tick ==
    /\ pc \in {"prepare", "prepared"}
    /\ \E t \in ClockValues :
         /\ t > now
         /\ now' = t
    /\ UNCHANGED <<pc, prep_vars, hash_vars, pool_vars, sync_vars>>

----------------------------------------------------------------------------
(* Specifications. *)

Next ==
    \/ Coordinator
    \/ \E w \in 1..MaxWorkers : Worker(w)

\* the run, the caller calling sync() straight after prepare()
Spec == Init /\ [][Next]_vars

\* the code points the keys hashed on their own are made of, and those
\* keys: the ones whose encoding has at most MaxKeyLen bytes
KeyChars == {0, 58, 97, 255}

KeysOfLen(n) == [1..n -> KeyChars]

Keys ==
    {k \in UNION {KeysOfLen(n) : n \in 0..MaxKeyLen} : Len(Utf8(k)) <= MaxKeyLen}

\* a syncer whose num_shards is set, and a key to hash
HashInit ==
    /\ pc = "hash"
    /\ num_shards \in 1..MaxHashShards
    /\ hash_key \in Keys
    /\ hash_shard = None
    /\ InitRun

\* a call of shard_num_for_key(key)
ShardNumForKey ==
    /\ pc = "hash"
    /\ hash_shard' = shard_num_for_key(hash_key, num_shards)
    /\ pc' = "hashed"
    /\ UNCHANGED <<variant, now, ph, idx, shard_info, shard_work, buckets_by_shard,
                   metadata_by_shard, sections, prepared_at, calls, replies,
                   answers, num_shards, hash_key, pool_vars, sync_vars>>

\* shard_num_for_key on its own, for every key and shard count in the bounds
SpecHash == HashInit /\ [][ShardNumForKey]_vars

\* prepare(), then sync() as far as the return of wait_until_ready(), with
\* time passing before wait_until_ready() is called
ClockNext ==
    \/ Prepare
    \/ Tick
    \/ SyncStart
    \/ WaitSleep
    \/ WaitReturn

SpecClock == Init /\ [][ClockNext]_vars

\* the same with worker processes that may die
SpecCrash == Init /\ [][Next \/ \E w \in 1..MaxWorkers : WorkerCrash(w)]_vars

\* the scheduler runs every process that can take a step
FairSpec ==
    /\ Spec
    /\ WF_vars(Coordinator)
    /\ \A w \in 1..MaxWorkers : WF_vars(Worker(w))

----------------------------------------------------------------------------
(* Properties. *)

IncVariants == {"MetaSyncerInc", "DataSyncerInc"}
FullVariants == {"DataSyncerFull", "MetaSyncerFull"}

Shards == 0..(num_shards - 1)

\* the shards whose result, as read by sync(), was a failure / a success
FailedShards ==
    {s \in DOMAIN outcomes :
        \E k \in 1..Len(outcomes[s]) : outcomes[s][k].result # RESULT_SUCCESS}
SucceededShards ==
    {s \in DOMAIN outcomes :
        \E k \in 1..Len(outcomes[s]) : outcomes[s][k].result = RESULT_SUCCESS}

\* C1: when sync() has drained its results, the failed-shard list it reports
\* holds exactly the shards whose result was a failure: every failed shard,
\* no successful shard and no retry identifier.
C1_ReportIsFailedShards ==
    report.done => SeqSet(report.shards) = {ShardEntry(s) : s \in FailedShards}

\* the calls before the k-th call snapshot the marker of every shard
MarkersSnapshottedBefore(k) ==
    /\ num_shards # None
    /\ \A s \in Shards : \E j \in 1..(k - 1) : calls[j] = <<"get_log_info", s>>

IsEnumeration(c) ==
    c[1] \in {"get_bucket_list", "get_metadata_sections", "list_metadata_keys"}
IsEntityListing(c) == c[1] \in {"get_bucket_list", "list_metadata_keys"}

\* C2 as stated: in both full variants get_log_info has completed for every
\* shard before any enumeration call, the section listing included.
C2_MarkersBeforeAnyEnumeration ==
    variant \in FullVariants =>
        \A k \in 1..Len(calls) : IsEnumeration(calls[k]) => MarkersSnapshottedBefore(k)

\* C2 amended: in both full variants get_log_info has completed for every
\* shard before the bucket listing (data) and before every per-section key
\* listing (metadata); the metadata section listing is the first call of
\* MetaSyncerFull.prepare(), made before any marker is snapshotted.
C2_MarkersBeforeEntityListing ==
    /\ variant \in FullVariants =>
         \A k \in 1..Len(calls) : IsEntityListing(calls[k]) => MarkersSnapshottedBefore(k)
    /\ variant = "MetaSyncerFull" =>
         \A k \in 1..Len(calls) :
            (calls[k][1] = "get_metadata_sections") <=> (k = 1)

C2_Witness ==
    /\ variant = "MetaSyncerFull"
    /\ pc = "prepared"
    /\ num_shards = 2
    /\ Len(sections) = 2
    /\ \E k \in 1..Len(calls) : calls[k] = <<"list_metadata_keys", 1>>

\* C3: sync() calls set_worker_bound for a shard at most once, only for a
\* shard whose success result it has read, never for a shard whose result
\* was a failure.
C3_CheckpointOncePerSuccess ==
    \A s \in DOMAIN set_calls :
        /\ Len(set_calls[s]) <= 1
        /\ s \in SucceededShards
        /\ s \notin FailedShards

C3_Witness ==
    /\ pc = "done"
    /\ \E s \in DOMAIN set_calls, t \in FailedShards :
         /\ s # t
         /\ Len(set_calls[s]) = 1
         /\ HasSnapshot(shard_info, t)
         /\ t \notin DOMAIN set_calls

\* prepare() recorded no checkpoint snapshot for the shard: the bound lookup
\* answered NotFound (incremental), the log-info marker was empty (full)
NoSnapshotTaken(s) ==
    \/ s \notin DOMAIN answers
    \/ IF variant \in IncVariants
       THEN answers[s].bound.status = "NotFound"
       ELSE answers[s].marker = ""

\* C4: complete_item never calls set_worker_bound for a shard for which
\* prepare() recorded no checkpoint snapshot.
C4_NoWriteWithoutSnapshot ==
    \A s \in DOMAIN set_calls : ~NoSnapshotTaken(s)

C4_Witness ==
    /\ pc = "done"
    /\ variant \in IncVariants
    /\ \E s \in SucceededShards, t \in SucceededShards :
         /\ NoSnapshotTaken(s)
         /\ s \notin DOMAIN set_calls
         /\ t \in DOMAIN set_calls

\* the first I entries are work items, the W after them are poison pills
ItemsThenPills(puts, I, W) ==
    /\ Len(puts) = I + W
    /\ \A k \in 1..Len(puts) : puts[k].pill <=> (k > I)

\* C5: sync() puts exactly I + W entries on workQueue, the I pairs yielded
\* by generate_work() followed by W poison pills, and reads resultQueue
\* exactly I times.
C5_PoolAccounting ==
    /\ pc \in {"drain", "write", "done"} =>
         /\ num_items = Len(generate_work(variant))
         /\ ItemsThenPills(work_puts, num_items, num_workers)
    /\ i <= num_items
    /\ pc = "done" => i = num_items

C5_Witness ==
    /\ pc = "done"
    /\ num_workers = 2
    /\ num_items = 2
    /\ i = 2

PillTaken == \E w \in DOMAIN pills_got : pills_got[w] > 0
ItemQueued == \E k \in 1..Len(workQueue) : ~workQueue[k].pill

\* C6: no worker dequeues two poison pills, no pill is dequeued while a work
\* item is still to be enqueued or dequeued, and once workQueue has been
\* filled and emptied every worker has dequeued exactly one pill.
C6_OnePillPerWorker ==
    /\ \A w \in DOMAIN pills_got : pills_got[w] <= 1
    /\ PillTaken => (pc \in {"enqueue", "drain", "write", "done"} /\ gen = <<>> /\ ~ItemQueued)
    /\ (pc \in {"drain", "write", "done"} /\ workQueue = <<>>) =>
         \A w \in DOMAIN wstate : pills_got[w] = 1 /\ wstate[w] = "exited"

C6_Witness ==
    /\ pc = "drain"
    /\ num_workers = 2
    /\ num_items = 2
    /\ workQueue = <<>>
    /\ Len(resultQueue) = 2
    /\ \A w \in DOMAIN wstate : pills_got[w] = 1

AllWorkersExited == \A w \in DOMAIN wstate : wstate[w] = "exited"

\* C7: with at least one worker, every process being scheduled, a run of
\* sync() reaches its end with all results read, workQueue empty and every
\* worker terminated.
C7_SyncTerminates ==
    (pc = "wait" /\ num_workers >= 1)
        ~> (pc = "done" /\ i = num_items /\ workQueue = <<>> /\ AllWorkersExited)

C7_Witness ==
    /\ pc = "done"
    /\ num_workers = 2
    /\ num_items = 2
    /\ i = num_items
    /\ workQueue = <<>>
    /\ AllWorkersExited

\* fewer than num_items results will ever be put on resultQueue
ResultLost ==
    \/ \E w \in DOMAIN wstate : wstate[w] = "dead"
    \/ (pc \notin {"prepare", "prepared", "aborted", "wait"}
          /\ num_workers = 0 /\ num_items > 0)

\* C8: when a worker died holding an item, or there are items and no
\* worker, sync() never returns and makes no end-of-run report.
C8_BlockedWithoutResult ==
    ResultLost => (pc # "done" /\ ~report.done)

\* the coordinator blocked in resultQueue.get() with nobody left to put
C8_Witness ==
    /\ pc = "drain"
    /\ i < num_items
    /\ resultQueue = <<>>
    /\ num_workers = 2
    /\ \E w \in DOMAIN wstate : wstate[w] = "dead"
    /\ \A w \in DOMAIN wstate : wstate[w] \in {"dead", "exited"}

\* C9: the data variants' wait_until_ready() never returns before
\* prepared_at + rgw_data_log_window; the metadata variants' returns at once.
C9_SettleWindow ==
    wait_returned_at # None =>
        IF variant \in DataVariants
        THEN wait_returned_at >= prepared_at + DefaultLogWindow
        ELSE wait_returned_at = wait_called_at

\* called inside the window, returned at its end
C9_Witness ==
    /\ variant \in DataVariants
    /\ wait_returned_at # None
    /\ wait_called_at > prepared_at
    /\ wait_called_at < prepared_at + DefaultLogWindow
    /\ wait_returned_at = prepared_at + DefaultLogWindow

\* C10: after IncrementalSyncer.prepare() the keys of shard_work are exactly
\* 0..num_shards-1; a shard whose bound lookup answered NotFound has the
\* empty marker and no retries, one whose log fetch answered NotFound has no
\* entries.
C10_ShardCoverage ==
    (variant \in IncVariants /\ pc \notin {"prepare", "aborted"}) =>
        /\ DOMAIN shard_work = Shards
        /\ \A s \in Shards :
             /\ answers[s].bound.status = "NotFound" =>
                  (shard_info[s] = "" /\ shard_work[s][2] = <<>>)
             /\ answers[s].log.status = "NotFound" => shard_work[s][1] = <<>>

C10_Witness ==
    /\ variant \in IncVariants
    /\ pc = "prepared"
    /\ num_shards = 2
    /\ answers[0].bound.status = "NotFound"
    /\ answers[0].log.status = "NotFound"
    /\ answers[1].bound.status = "ok"
    /\ answers[1].log.status = "ok"

\* the retries prepare() found in the worker bound of shard s
LoadedRetries(s) ==
    IF answers[s].bound.status = "ok" THEN answers[s].bound.value.retries ELSE <<>>

\* C11: in the incremental variants the retries loaded from a shard's worker
\* bound stay as loaded (same elements, same order) in shard_work, and every
\* work item put on workQueue for a shard carries the list loaded for that
\* very shard.
C11_CarriedRetriesKept ==
    variant \in IncVariants =>
        /\ \A s \in DOMAIN shard_work :
             s \in DOMAIN answers /\ shard_work[s][2] = LoadedRetries(s)
        /\ \A k \in 1..Len(work_puts) :
             ~work_puts[k].pill =>
                LET shard_num == work_puts[k].item[1]
                    carried == work_puts[k].item[2][2]
                IN shard_num \in DOMAIN answers /\ carried = LoadedRetries(shard_num)

C11_Witness ==
    /\ variant \in IncVariants
    /\ num_items = 2
    /\ \E j, k \in 1..Len(work_puts) :
         /\ ~work_puts[j].pill /\ ~work_puts[k].pill
         /\ work_puts[j].item[2][2] = <<Name(1), Name(2)>>
         /\ work_puts[k].item[2][2] = <<>>

\* the shards whose set_worker_bound call failed
FailedWrites ==
    {s \in DOMAIN set_calls : \E k \in 1..Len(set_calls[s]) : ~set_calls[s][k].ok}

\* C12: a set_worker_bound call that fails inside complete_item is absorbed:
\* the call is not made again, the shard is not put on the list of failed
\* shards, and sync() goes on: it reads every remaining result and makes the
\* checkpoint call of every other shard that succeeded and has a snapshot.
C12_WriteFailureAbsorbed ==
    /\ \A s \in FailedWrites :
         /\ Len(set_calls[s]) = 1
         /\ ShardEntry(s) \notin SeqSet(retries) \cup SeqSet(report.shards)
         /\ pc \in {"drain", "write", "done"}
    /\ (pc = "done" /\ FailedWrites # {}) =>
         /\ i = num_items
         /\ resultQueue = <<>>
         /\ \A t \in SucceededShards :
              ~NoSnapshotTaken(t) => t \in DOMAIN set_calls

C12_Witness ==
    /\ pc = "done"
    /\ \E s \in FailedWrites, t \in DOMAIN set_calls :
         /\ t \notin FailedWrites
         /\ Len(set_calls[t]) = 1

\* the calls of prepare() that listed the keys of a section
KeyListings == {k \in 1..Len(calls) : calls[k][1] = "list_metadata_keys"}

\* the section whose keys the k-th call listed, as get_metadata_sections
\* answered it
SectionListed(k) == replies[1].value[calls[k][2] + 1]

\* the (section, key) pairs the key listings answered so far
KeysEnumerated ==
    UNION {{<<SectionListed(k), name>> : name \in SeqSet(replies[k].value)} :
             k \in {j \in KeyListings : replies[j].status = "ok"}}

\* the (section, key) pairs in metadata_by_shard
KeysPartitioned ==
    UNION {SeqSet(metadata_by_shard[s]) : s \in DOMAIN metadata_by_shard}

\* C13: in MetaSyncerFull.prepare() a failed section listing, and a key
\* listing that fails with anything but NotFound, end prepare() at that call
\* and the run never reaches sync(); a key listing answered NotFound adds no
\* key, keeps the keys partitioned so far and does not end prepare().
C13_MetaPrepareErrors ==
    variant = "MetaSyncerFull" =>
        /\ \A k \in 1..Len(calls) :
             /\ (replies[k].status = "HttpError") =>
                   (pc = "aborted" /\ k = Len(calls))
             /\ (k \in KeyListings /\ replies[k].status = "NotFound") =>
                   (pc # "aborted" \/ k < Len(calls))
        /\ pc = "aborted" =>
             /\ replies[Len(calls)].status = "HttpError"
             /\ wait_called_at = None
             /\ work_puts = <<>>
        /\ KeysPartitioned = KeysEnumerated

C13_Witness ==
    /\ variant = "MetaSyncerFull"
    /\ pc = "prepared"
    /\ \E j, k \in KeyListings :
         /\ j < k
         /\ replies[j].status = "ok"
         /\ replies[j].value # <<>>
         /\ replies[k].status = "NotFound"
    /\ KeysPartitioned # {}

\* the hash with the accumulator reduced modulo n after every byte
RECURSIVE HashModEachStep(_, _)
HashModEachStep(bytes, n) ==
    IF bytes = <<>> THEN 0
    ELSE LET h == HashModEachStep(SubSeq(bytes, 1, Len(bytes) - 1), n)
             b == bytes[Len(bytes)]
         IN ((h + b * 16 + b \div 16) * 11) % n

\* C14: for every key and every shard count n > 0, shard_num_for_key(key)
\* equals the hash computed with the accumulator reduced modulo n after
\* every byte, and lies in 0..n-1.
C14_HashModEquivalence ==
    pc = "hashed" =>
        /\ hash_shard = HashModEachStep(Utf8(hash_key), num_shards)
        /\ hash_shard \in 0..(num_shards - 1)

C14_Witness ==
    /\ pc = "hashed"
    /\ Len(hash_key) >= 2
    /\ num_shards = 3
    /\ 255 \in SeqSet(hash_key)
    /\ HashVal(Utf8(hash_key)) > 1000 * num_shards
    /\ hash_shard = 2

\* the buckets get_bucket_list answered
BucketsEnumerated ==
    UNION {SeqSet(replies[k].value) :
             k \in {j \in 1..Len(calls) : calls[j][1] = "get_bucket_list"}}

\* the shards whose payload in the dict d holds the entity e
ShardsHolding(d, e) == {s \in DOMAIN d : e \in SeqSet(d[s])}

\* every entity of the set is in the payload of the one shard its hash
\* names, and the payloads of d hold nothing else
PartitionedByHash(d, entities, HashKey(_)) ==
    /\ \A e \in entities :
         ShardsHolding(d, e) = {shard_num_for_key(HashKey(e), num_shards)}
    /\ \A s \in DOMAIN d : SeqSet(d[s]) \subseteq entities

BucketHashKey(bucket) == bucket
MetaHashKey(entity) == entity[1] \o <<58>> \o entity[2]

\* C15: after a full-sync prepare(), every bucket (data) and every
\* (section, key) pair (metadata) that was enumerated is in the payload of
\* exactly one shard, the shard shard_num_for_key gives for the bucket name,
\* or for section + ':' + key; and no payload holds anything else.
C15_FullPartition ==
    (variant \in FullVariants /\ pc \notin {"prepare", "aborted"}) =>
        IF variant = "DataSyncerFull"
        THEN PartitionedByHash(buckets_by_shard, BucketsEnumerated, BucketHashKey)
        ELSE PartitionedByHash(metadata_by_shard, KeysEnumerated, MetaHashKey)

C15_Witness ==
    /\ variant = "MetaSyncerFull"
    /\ pc = "prepared"
    /\ num_shards = 2
    /\ DOMAIN metadata_by_shard = {0, 1}
    /\ Cardinality(KeysEnumerated) >= 3

\* the retries payload of a set_worker_bound call names exactly the
\* elements of rs, in order
PayloadOf(call, rs) ==
    /\ Len(call.data) = Len(rs)
    /\ \A k \in 1..Len(rs) : call.data[k].name = rs[k]

\* the set_worker_bound calls made for shard t, returned or in progress
CallsFor(t) ==
    DictGet(set_calls, t, <<>>) \o SelectSeq(writing, LAMBDA c : c.shard = t)

\* C16: whatever the order the results arrive in, every shard that succeeded
\* and has a snapshot gets its complete_item call, failed shards or not, and
\* the retries payload of that call is the retries list of the shard's own
\* result, with nothing of any other result in it.
C16_OutcomesIsolated ==
    \A t \in SucceededShards :
        ~NoSnapshotTaken(t) =>
            /\ Len(CallsFor(t)) = 1
            /\ PayloadOf(CallsFor(t)[1], outcomes[t][1].retries)
            /\ pc = "done" => t \in DOMAIN set_calls

C16_Witness ==
    /\ pc = "done"
    /\ \E s \in FailedShards, t \in SucceededShards :
         /\ outcomes[s][1].retries # <<>>
         /\ t \in DOMAIN set_calls
         /\ outcomes[t][1].retries = <<>>
         /\ set_calls[t][1].data = <<>>

\* C17: sync() keeps a fixed order: all num_workers workers are started when
\* wait_until_ready() is called; nothing, item or pill, is put on workQueue
\* before wait_until_ready() has returned; every work item is put before the
\* first pill; and no result is read before the last pill is put.
C17_SyncOrder ==
    /\ wait_called_at # None => DOMAIN wstate = 1..num_workers
    /\ wait_returned_at = None => (work_puts = <<>> /\ workQueue = <<>>)
    /\ \A j, k \in 1..Len(work_puts) :
         (j < k /\ work_puts[j].pill) => work_puts[k].pill
    /\ (i > 0 \/ outcomes # EmptyDict \/ pc \in {"drain", "write", "done"}) =>
         /\ gen = <<>>
         /\ PillsPut = num_workers
         /\ wait_returned_at # None

C17_Witness ==
    /\ pc = "drain"
    /\ i = 1
    /\ num_workers = 2
    /\ num_items = 2
    /\ Len(work_puts) = 4
    /\ wait_called_at # None
    /\ wait_returned_at # None

\* how many set_worker_bound calls the history d holds for shard s
WritesTo(d, s) == Len(DictGet(d, s, <<>>))

\* the step is one pass of the result loop of sync(): one result is read
ReadsOneResult ==
    /\ pc = "drain"
    /\ resultQueue # <<>>
    /\ resultQueue' = Tail(resultQueue)
    /\ i' = i + 1

\* C18: checkpoint writes are serialized: at most one set_worker_bound call
\* is in progress at any time, whatever the workers do meanwhile; a call
\* starts only in the coordinator's pass that read a result and returns
\* before the next result is read; and the step in which a call returns is
\* no step of a worker and records that one call.
\* a call starts only in the pass that read a result, with none in progress
CallStartsAtRead ==
    (writing' # writing /\ writing' # <<>>) =>
        /\ ReadsOneResult
        /\ writing = <<>>
        /\ writing'[1].shard = Head(resultQueue)

\* no result is read while a call is in progress
NoReadWhileWriting == (outcomes' # outcomes \/ i' # i) => writing = <<>>

\* the step in which a call returns records that call and is no worker step
CallReturnsAlone ==
    (set_calls' # set_calls) =>
        /\ writing # <<>>
        /\ writing' = Tail(writing)
        /\ pool_vars' = pool_vars
        /\ WritesTo(set_calls', Head(writing).shard) =
              WritesTo(set_calls, Head(writing).shard) + 1
        /\ \A s \in DOMAIN set_calls' :
             (s # Head(writing).shard) =>
                WritesTo(set_calls', s) = WritesTo(set_calls, s)

C18_WritesSerialized ==
    /\ [](Len(writing) <= 1 /\ (writing # <<>> => pc = "write"))
    /\ [][CallStartsAtRead /\ NoReadWhileWriting /\ CallReturnsAlone]_vars

\* a call is in progress while a worker still processes an item
C18_Witness ==
    /\ pc = "write"
    /\ num_workers = 2
    /\ Len(writing) = 1
    /\ \E w \in DOMAIN wstate : wstate[w] = "busy"
    /\ \E w \in DOMAIN wstate : wstate[w] = "exited"

\* the marker prepare() was answered for shard s: that of the worker bound
\* (incremental, '' when there is none), that of the log info (full)
MarkerAnswered(s) ==
    IF variant \in IncVariants
    THEN IF answers[s].bound.status = "ok" THEN answers[s].bound.value.marker ELSE ""
    ELSE answers[s].marker

\* C19: every set_worker_bound call of complete_item carries the marker that
\* prepare() snapshotted for that shard, the one fixed daemon id and a retries
\* payload with one entry per element of the retries of the result, in
\* order; and from the end of prepare() on, calls or not, shard_info holds
\* for every shard the marker prepare() was answered.
C19_WriteCarriesSnapshot ==
    /\ \A s \in DOMAIN set_calls :
         \A k \in 1..Len(set_calls[s]) :
            /\ s \in DOMAIN answers
            /\ set_calls[s][k].marker = MarkerAnswered(s)
            /\ set_calls[s][k].marker = shard_info[s]
            /\ set_calls[s][k].daemon_id = "radosgw-agent"
            /\ set_calls[s][k].shard = s
            /\ PayloadOf(set_calls[s][k], outcomes[s][k].retries)
            /\ \A j \in 1..Len(set_calls[s][k].data) :
                 set_calls[s][k].data[j].time = DEFAULT_TIME
    /\ pc \in {"prepared", "wait", "enqueue", "drain", "write", "done"} =>
         \A s \in DOMAIN answers : DictGet(shard_info, s, "") = MarkerAnswered(s)

C19_Witness ==
    /\ pc = "done"
    /\ \E s \in DOMAIN set_calls :
         /\ Len(set_calls[s]) = 1
         /\ set_calls[s][1].marker = "m2"
         /\ set_calls[s][1].data = <<[name |-> Name(3), time |-> DEFAULT_TIME]>>
         /\ shard_info[s] = "m2"

\* the shards at least one enumerated entity hashes to
ShardsWithEntity ==
    IF variant = "DataSyncerFull"
    THEN {shard_num_for_key(BucketHashKey(e), num_shards) : e \in BucketsEnumerated}
    ELSE {shard_num_for_key(MetaHashKey(e), num_shards) : e \in KeysEnumerated}

\* C20: in a full sync a work item is put on workQueue only for a shard that
\* at least one enumerated entity hashes to, so only such a shard has a
\* result; and set_worker_bound is called for shard s only if s has both a
\* non-empty marker snapshot and at least one entity.  A shard with a marker
\* but no entity gets neither item, result nor checkpoint write.
C20_FullSyncOnlyShardsWithWork ==
    (variant \in FullVariants /\ pc \notin {"prepare", "aborted"}) =>
        /\ \A k \in 1..Len(work_puts) :
             ~work_puts[k].pill => work_puts[k].item[1] \in ShardsWithEntity
        /\ SeqSet(resultQueue) \subseteq ShardsWithEntity
        /\ DOMAIN outcomes \subseteq ShardsWithEntity
        /\ \A s \in DOMAIN set_calls :
             /\ s \in ShardsWithEntity
             /\ s \in DOMAIN answers
             /\ answers[s].marker # ""

C20_Witness ==
    /\ variant \in FullVariants
    /\ pc = "done"
    /\ \E s, t \in Shards :
         /\ answers[s].marker # ""
         /\ s \notin ShardsWithEntity
         /\ s \notin DOMAIN outcomes \cup DOMAIN set_calls
         /\ t \in DOMAIN set_calls

====
